---- MODULE Spec2Model ----
(***************************************************************************)
(* Collaborative music player: the session store, the playlist mutation    *)
(* engine, the request/approval engine and the playback commands of        *)
(* app/main.py and app/services.py, as a state machine.                    *)
(*                                                                         *)
(* Every REST endpoint and every live-channel message type is one action.  *)
(* An action is the whole handler: its dependency (get_actor), its         *)
(* membership and role checks, the service calls it makes and the commit.  *)
(* A handler that raises leaves the database as it was (the SQLAlchemy     *)
(* session is closed without a commit).                                   *)
(*                                                                         *)
(* Identifiers: a user is named by its token (users.id and users.token are *)
(* both unique and generated together); playlist items and requests get    *)
(* the next unused integer where the code draws a fresh uuid4.             *)
(* app/models.py of this tree declares the simple-metadata columns; the    *)
(* services and endpoints use the media-upload columns, which carry no     *)
(* behaviour of their own here except the keys apply_request reads.        *)
(***************************************************************************)
EXTENDS Integers, Sequences, FiniteSets, TLC

VARIABLES users, sessions, items, nextItem, playback, requests, logs, applied, clock,
          active, socket, jobs, pubs

\* The broadcast hub and the live connections (see "Broadcast hub" below).
hub == <<active, socket, jobs, pubs>>

vars == <<users, sessions, items, nextItem, playback, requests, logs, applied, clock, hub>>

-----------------------------------------------------------------------------
(* Bounds of the model *)

\* Playlist items ever created (fresh ids are never reused).
MaxItems == 3
\* Requests ever submitted.
MaxRequests == 1
\* Audit-log entries ever written (bounds repeated resolutions).
MaxLogs == 3
\* The same three bounds in the two-session scenario ...
AuthMaxItems == 2
AuthMaxRequests == 1
AuthMaxLogs == 2
\* ... and in the playback scenario.
PlayMaxItems == 3
PlayMaxRequests == 1
PlayMaxLogs == 2
\* ... and in the scenario of a session with a duration cap.
CapMaxItems == 2
CapMaxRequests == 1
CapMaxLogs == 2
\* ... and in the scenario of the broadcast hub, with the live connections ever
\* accepted and the events ever published.
HubMaxItems == 1
HubMaxRequests == 1
HubMaxLogs == 2
HubMaxConns == 2
HubMaxEvents == 2
\* ... and in the scenario of concurrent mutations.
RaceMaxItems == 2
RaceMaxRequests == 1
RaceMaxLogs == 2
RaceMaxConns == 1
RaceMaxEvents == 3
\* ... and in the scenario of the two sessions' connections.
GateMaxItems == 1
GateMaxRequests == 1
GateMaxLogs == 2
GateMaxConns == 3
GateMaxEvents == 3
\* ... and in the scenario of the clock, with the time that passes.
ClockMaxItems == 2
ClockMaxRequests == 1
ClockMaxLogs == 1
MaxClock == 2

-----------------------------------------------------------------------------
(* Values *)

\* Python's None, for optional strings.
None == "None"
\* Optional integers: None is the empty tuple, a value v is <<v>>.
NoInt == <<>>
Some(v) == <<v>>

Tracks == {"t1", "t2"}

\* Tokens and session ids a caller can present: the stored ones and one unknown.
BadToken == "bad"
BadSession == "S0"
\* An item id and a request id that were never issued.
BadItem == 0
BadRequestId == 0

HTTP_OK == 200
BadRequest == 400
Unauthorized == 401
Forbidden == 403
NotFound == 404
Validation == 422
ServerError == 500

-----------------------------------------------------------------------------
(* Playlist helpers *)

SessionItems(its, sid) == {it \in its : it.session_id = sid}

Before(x, y) == x.position < y.position \/ (x.position = y.position /\ x.id <= y.id)

RECURSIVE SortByPosition(_)
SortByPosition(S) ==
    IF S = {} THEN <<>>
    ELSE LET m == CHOOSE x \in S : \A y \in S : Before(x, y)
         IN <<m>> \o SortByPosition(S \ {m})

\* sorted(session.playlist_items, key=position)
SortedItems(its, sid) == SortByPosition(SessionItems(its, sid))

\* for index, entry in enumerate(items): entry.position = index
Renumber(seq) == {[seq[i] EXCEPT !.position = i - 1] : i \in 1..Len(seq)}

RemoveAt(seq, i) == SubSeq(seq, 1, i - 1) \o SubSeq(seq, i + 1, Len(seq))
\* list.insert(p, x) for 0 <= p <= len
InsertAt(seq, p, x) == SubSeq(seq, 1, p) \o <<x>> \o SubSeq(seq, p + 1, Len(seq))

IndexOfId(seq, id) ==
    IF \E i \in 1..Len(seq) : seq[i].id = id
    THEN CHOOSE i \in 1..Len(seq) : seq[i].id = id /\ \A j \in 1..(i - 1) : seq[j].id # id
    ELSE 0

-----------------------------------------------------------------------------
(* Identity and membership *)

\* get_actor: the X-User-Token header names a stored user, else 401.
get_actor(tok) == IF tok \in DOMAIN users THEN HTTP_OK ELSE Unauthorized

\* ensure_session: the session exists, else 404.
ensure_session(sid) == IF sid \in DOMAIN sessions THEN HTTP_OK ELSE NotFound

\* Faulty variant: any host is a member of any session.
ensure_session_membership_by_role(tok, sid) ==
    IF ensure_session(sid) # HTTP_OK THEN NotFound
    ELSE IF users[tok].role = "host" THEN HTTP_OK
    ELSE IF users[tok].role = "guest" /\ users[tok].session_id = sid THEN HTTP_OK
    ELSE Forbidden

\* ensure_session_membership: the host of this session or a guest bound to it.
ensure_session_membership(tok, sid) ==
    IF ensure_session(sid) # HTTP_OK THEN NotFound
    ELSE IF users[tok].role = "host" /\ sessions[sid].host_id = tok THEN HTTP_OK
    ELSE IF users[tok].role = "guest" /\ users[tok].session_id = sid THEN HTTP_OK
    ELSE Forbidden

\* What a session-scoped endpoint answers before it looks at its payload.
Admit(tok, sid) ==
    IF get_actor(tok) # HTTP_OK THEN Unauthorized ELSE ensure_session_membership(tok, sid)

-----------------------------------------------------------------------------
(* Playlist mutation engine (services.py).  Each operator gives the outcome *)
(* of the call on the current state: the status it ends with and the        *)
(* playlist items, playback states and id counter it commits.               *)

Outcome(c, its, pb, nxt) == [code |-> c, items |-> its, playback |-> pb, nextItem |-> nxt]
Raise(c) == Outcome(c, items, playback, nextItem)

add_playlist_item(sid, track, duration_seconds) ==
    LET position == Cardinality(SessionItems(items, sid))
        item == [id |-> nextItem, session_id |-> sid, track_id |-> track,
                 duration_seconds |-> duration_seconds, position |-> position]
    IN Outcome(HTTP_OK,
               items \cup {item},
               IF playback[sid].track_id = None
                   THEN [playback EXCEPT ![sid].track_id = track] ELSE playback,
               nextItem + 1)

\* Faulty variant: the item changes places with the one at new_position.
reorder_playlist_swap(sid, item_id, new_position) ==
    LET sorted == SortedItems(items, sid)
        index == IndexOfId(sorted, item_id)
    IN IF new_position < 0 \/ new_position >= Len(sorted) THEN Raise(BadRequest)
       ELSE IF index = 0 THEN Raise(NotFound)
       ELSE LET moved == [sorted EXCEPT ![index] = sorted[new_position + 1],
                                        ![new_position + 1] = sorted[index]]
            IN Outcome(HTTP_OK,
                       (items \ SessionItems(items, sid)) \cup Renumber(moved),
                       playback, nextItem)

\* Faulty variant: only the moved item's position is written.
reorder_playlist_partial(sid, item_id, new_position) ==
    LET sorted == SortedItems(items, sid)
        index == IndexOfId(sorted, item_id)
    IN IF new_position < 0 \/ new_position >= Len(sorted) THEN Raise(BadRequest)
       ELSE IF index = 0 THEN Raise(NotFound)
       ELSE Outcome(HTTP_OK,
                    (items \ {sorted[index]}) \cup {[sorted[index] EXCEPT !.position = new_position]},
                    playback, nextItem)

reorder_playlist(sid, item_id, new_position) ==
    LET sorted == SortedItems(items, sid)
        index == IndexOfId(sorted, item_id)
    IN IF new_position < 0 \/ new_position >= Len(sorted) THEN Raise(BadRequest)
       ELSE IF index = 0 THEN Raise(NotFound)
       ELSE LET moved == InsertAt(RemoveAt(sorted, index), new_position, sorted[index])
            IN Outcome(HTTP_OK,
                       (items \ SessionItems(items, sid)) \cup Renumber(moved),
                       playback, nextItem)

\* Faulty variant: the remaining items keep the positions they had.
remove_playlist_item_no_renumber(sid, item_id) ==
    IF ~\E it \in items : it.id = item_id /\ it.session_id = sid THEN Raise(NotFound)
    ELSE LET item == CHOOSE it \in items : it.id = item_id
             remaining == SortByPosition({e \in SessionItems(items, sid) : e.id # item_id})
         IN Outcome(HTTP_OK,
                    items \ {item},
                    IF playback[sid].track_id = item.track_id
                        THEN [playback EXCEPT ![sid].track_id =
                                 IF Len(remaining) > 0 THEN remaining[1].track_id ELSE None]
                        ELSE playback,
                    nextItem)

\* Faulty variant: the current track stays when its item is removed.
remove_playlist_item_stale_track(sid, item_id) ==
    IF ~\E it \in items : it.id = item_id /\ it.session_id = sid THEN Raise(NotFound)
    ELSE LET remaining == SortByPosition({e \in SessionItems(items, sid) : e.id # item_id})
         IN Outcome(HTTP_OK,
                    (items \ SessionItems(items, sid)) \cup Renumber(remaining),
                    playback, nextItem)

remove_playlist_item(sid, item_id) ==
    IF ~\E it \in items : it.id = item_id /\ it.session_id = sid THEN Raise(NotFound)
    ELSE LET item == CHOOSE it \in items : it.id = item_id
             remaining == SortByPosition({e \in SessionItems(items, sid) : e.id # item_id})
         IN Outcome(HTTP_OK,
                    (items \ SessionItems(items, sid)) \cup Renumber(remaining),
                    IF playback[sid].track_id = item.track_id
                        THEN [playback EXCEPT ![sid].track_id =
                                 IF Len(remaining) > 0 THEN remaining[1].track_id ELSE None]
                        ELSE playback,
                    nextItem)

\* A request payload: which keys the JSON object holds.  track_id is None and
\* item_id / new_position / duration_seconds are NoInt when the key is absent;
\* media says whether name, media_path and media_type are all present.
Payload(t, m, i, p) ==
    [track_id |-> t, media |-> m, item_id |-> i, new_position |-> p, duration_seconds |-> NoInt]
\* The same payload with a duration_seconds key (absent when d is NoInt).
WithDuration(payload, d) == [payload EXCEPT !.duration_seconds = d]
EmptyPayload == Payload(None, FALSE, NoInt, NoInt)

\* Faulty variant: a remove request is accepted without removing anything.
apply_request_skip_remove(sid, request) ==
    LET payload == request.payload
    IN IF request.request_type = "add" THEN
           IF payload.track_id = None \/ ~payload.media THEN Raise(ServerError)
           ELSE add_playlist_item(sid, payload.track_id, payload.duration_seconds)
       ELSE IF request.request_type = "reorder" THEN
           IF payload.item_id = NoInt \/ payload.new_position = NoInt THEN Raise(ServerError)
           ELSE reorder_playlist(sid, payload.item_id[1], payload.new_position[1])
       ELSE IF request.request_type = "remove" THEN Raise(HTTP_OK)
       ELSE Raise(BadRequest)

\* apply_request: a missing key is a KeyError, which the server answers with 500.
apply_request(sid, request) ==
    LET payload == request.payload
    IN IF request.request_type = "add" THEN
           IF payload.track_id = None \/ ~payload.media THEN Raise(ServerError)
           ELSE add_playlist_item(sid, payload.track_id, payload.duration_seconds)
       ELSE IF request.request_type = "reorder" THEN
           IF payload.item_id = NoInt \/ payload.new_position = NoInt THEN Raise(ServerError)
           ELSE reorder_playlist(sid, payload.item_id[1], payload.new_position[1])
       ELSE IF request.request_type = "remove" THEN
           IF payload.item_id = NoInt THEN Raise(ServerError)
           ELSE remove_playlist_item(sid, payload.item_id[1])
       ELSE Raise(BadRequest)

-----------------------------------------------------------------------------
(* Request engine (services.py) *)

\* create_request + log_request_event: a pending request and its first log entry.
create_request(sid, tok, request_type, payload) ==
    [session_id |-> sid, requester |-> tok, request_type |-> request_type,
     payload |-> payload, status |-> "pending", reason |-> None]

log_request_event(rid, status, message) ==
    Append(logs, [request_id |-> rid, status |-> status, message |-> message])

-----------------------------------------------------------------------------
(* Playback (main.py) *)

\* A state_update dict: each key is absent (<<>>) or holds one value.
StateUpdate(t, p, s) == [track_id |-> t, position_ms |-> p, state |-> s]

update_playback_state(sid, state_update) ==
    [playback EXCEPT ![sid] =
        [track_id    |-> IF state_update.track_id = <<>> THEN @.track_id ELSE state_update.track_id[1],
         position_ms |-> IF state_update.position_ms = <<>> THEN @.position_ms ELSE state_update.position_ms[1],
         state       |-> IF state_update.state = <<>> THEN @.state ELSE state_update.state[1],
         updated_at  |-> clock]]

\* next(idx for idx, entry in enumerate(items) if entry.track_id == playback_track_id),
\* 0-based; 0 when there is no current track or no item carries it.
CurrentIndex(sorted, track) ==
    IF track # None /\ \E i \in 1..Len(sorted) : sorted[i].track_id = track
    THEN (CHOOSE i \in 1..Len(sorted) :
              sorted[i].track_id = track /\ \A j \in 1..(i - 1) : sorted[j].track_id # track) - 1
    ELSE 0

Min(a, b) == IF a < b THEN a ELSE b
Max(a, b) == IF a > b THEN a ELSE b

\* Faulty variant: skipping past either end wraps around.
SkipIndexWrap(action, index, n) ==
    IF action = "skip_next" THEN (index + 1) % n ELSE (index + n - 1) % n

\* The index skip_next / skip_prev move to (0-based), for a non-empty playlist.
SkipIndex(action, index, n) ==
    IF action = "skip_next" THEN Min(index + 1, n - 1) ELSE Max(index - 1, 0)

\* Faulty variant: every action takes the track_id the command carries.
CommandUpdate_any_track(sid, action, track_id, position_ms) ==
    LET sorted == SortedItems(items, sid)
        t0 == IF track_id # None THEN <<track_id>> ELSE <<>>
        p0 == IF position_ms # NoInt THEN position_ms ELSE <<>>
    IN IF action = "play" THEN StateUpdate(t0, p0, <<"playing">>)
       ELSE IF action = "pause" THEN StateUpdate(t0, p0, <<"paused">>)
       ELSE IF action = "seek" THEN StateUpdate(t0, p0, <<playback[sid].state>>)
       ELSE LET index == SkipIndex(action, CurrentIndex(sorted, playback[sid].track_id), Len(sorted))
            IN StateUpdate(<<IF Len(sorted) > 0 THEN sorted[index + 1].track_id ELSE None>>,
                           <<0>>, <<playback[sid].state>>)

\* The state_update handle_websocket_message builds from a PlaybackCommand.
CommandUpdate(sid, action, track_id, position_ms) ==
    LET sorted == SortedItems(items, sid)
        t0 == IF action \in {"play", "seek"} /\ track_id # None THEN <<track_id>> ELSE <<>>
        p0 == IF position_ms # NoInt THEN position_ms ELSE <<>>
    IN IF action = "play" THEN StateUpdate(t0, p0, <<"playing">>)
       ELSE IF action = "pause" THEN StateUpdate(t0, p0, <<"paused">>)
       ELSE IF action = "seek" THEN StateUpdate(t0, p0, <<playback[sid].state>>)
       ELSE LET index == SkipIndex(action, CurrentIndex(sorted, playback[sid].track_id), Len(sorted))
            IN StateUpdate(<<IF Len(sorted) > 0 THEN sorted[index + 1].track_id ELSE None>>,
                           <<0>>, <<playback[sid].state>>)

-----------------------------------------------------------------------------
(* Handlers (main.py).  A handler is an operator of the current state and   *)
(* the call: it gives the status the caller is answered with and the rows   *)
(* the handler has committed when it returns.  A handler that raises has    *)
(* committed nothing.                                                       *)

Result(c, its, pb, nxt, reqs, lgs, app) ==
    [status |-> c, items |-> its, playback |-> pb, nextItem |-> nxt,
     requests |-> reqs, logs |-> lgs, applied |-> app]

\* The handler raised HTTPException(c), or an exception answered with 500.
Reject(c) == Result(c, items, playback, nextItem, requests, logs, applied)

\* The host's direct mutation: the outcome of the service call, committed.
Mutate(out) ==
    IF out.code # HTTP_OK THEN Reject(out.code)
    ELSE Result(HTTP_OK, out.items, out.playback, out.nextItem, requests, logs, applied)

\* create_request: the request row and its ("pending", "submitted") log entry.
Submit(sid, tok, request_type, payload) ==
    Result(HTTP_OK, items, playback, nextItem,
           Append(requests, create_request(sid, tok, request_type, payload)),
           log_request_event(Len(requests) + 1, "pending", "submitted"),
           Append(applied, 0))

\* GET /sessions/{session_id}/playlist
get_playlist(tok, sid) == Reject(Admit(tok, sid))

\* Faulty variant: the role is not looked at, every member adds directly.
add_playlist_item_endpoint_any_role(tok, sid, track, duration_seconds) ==
    IF Admit(tok, sid) # HTTP_OK THEN Reject(Admit(tok, sid))
    ELSE IF track = None THEN Reject(Validation)
    ELSE Mutate(add_playlist_item(sid, track, duration_seconds))

\* POST /sessions/{session_id}/playlist: the host adds, a guest requests.
\* For the host duration_seconds is detected_duration or the body's hint
\* (NoInt when neither is known); for a guest it is the body's field.
add_playlist_item_endpoint(tok, sid, track, duration_seconds) ==
    IF Admit(tok, sid) # HTTP_OK THEN Reject(Admit(tok, sid))
    ELSE IF users[tok].role = "host" THEN
        IF track = None THEN Reject(Validation)
        ELSE IF sessions[sid].max_media_duration_seconds # NoInt /\ duration_seconds = NoInt
            THEN Reject(Validation)
        ELSE IF /\ sessions[sid].max_media_duration_seconds # NoInt
                /\ duration_seconds[1] > sessions[sid].max_media_duration_seconds[1]
            THEN Reject(BadRequest)
        ELSE Mutate(add_playlist_item(sid, track, duration_seconds))
    ELSE Submit(sid, tok, "add", WithDuration(Payload(track, FALSE, NoInt, NoInt), duration_seconds))

\* PATCH /sessions/{session_id}/playlist/{item_id}
reorder_playlist_endpoint(tok, sid, item_id, new_position) ==
    IF Admit(tok, sid) # HTTP_OK THEN Reject(Admit(tok, sid))
    ELSE IF new_position = NoInt THEN Reject(Validation)
    ELSE IF users[tok].role = "host" THEN Mutate(reorder_playlist(sid, item_id, new_position[1]))
    ELSE Submit(sid, tok, "reorder", Payload(None, FALSE, Some(item_id), new_position))

\* DELETE /sessions/{session_id}/playlist/{item_id}
remove_playlist_item_endpoint(tok, sid, item_id) ==
    IF Admit(tok, sid) # HTTP_OK THEN Reject(Admit(tok, sid))
    ELSE IF users[tok].role = "host" THEN Mutate(remove_playlist_item(sid, item_id))
    ELSE Submit(sid, tok, "remove", Payload(None, FALSE, Some(item_id), NoInt))

\* POST /sessions/{session_id}/requests: any member may submit.
submit_custom_request(tok, sid, request_type, payload) ==
    IF Admit(tok, sid) # HTTP_OK THEN Reject(Admit(tok, sid))
    ELSE Submit(sid, tok, request_type, payload)

\* Faulty variant: the status and the reason are stored without an audit entry.
Resolve_no_log(out, rid, status, reason) ==
    Result(HTTP_OK, out.items, out.playback, out.nextItem,
           [requests EXCEPT ![rid].status = status, ![rid].reason = reason],
           logs,
           IF status = "approved" THEN [applied EXCEPT ![rid] = @ + 1] ELSE applied)

\* request.status, request.reason and build_request_log, then db.commit().
Resolve(out, rid, status, reason) ==
    Result(HTTP_OK, out.items, out.playback, out.nextItem,
           [requests EXCEPT ![rid].status = status, ![rid].reason = reason],
           log_request_event(rid, status, reason),
           IF status = "approved" THEN [applied EXCEPT ![rid] = @ + 1] ELSE applied)

\* The checks approve_request and deny_request make before they touch the request.
ResolveGuard(tok, rid) ==
    IF get_actor(tok) # HTTP_OK THEN Unauthorized
    ELSE IF users[tok].role # "host" THEN Forbidden
    ELSE IF rid \notin 1..Len(requests) THEN NotFound
    ELSE IF ensure_session(requests[rid].session_id) # HTTP_OK THEN NotFound
    ELSE IF sessions[requests[rid].session_id].host_id # tok THEN Forbidden
    ELSE HTTP_OK

\* Faulty variant: a failed approve is recorded in the audit log.
approve_request_log_failure(tok, rid, reason) ==
    IF ResolveGuard(tok, rid) # HTTP_OK THEN Reject(ResolveGuard(tok, rid))
    ELSE LET out == apply_request(requests[rid].session_id, requests[rid])
         IN IF out.code # HTTP_OK
            THEN Result(out.code, items, playback, nextItem, requests,
                        log_request_event(rid, "failed", reason), applied)
            ELSE Resolve(out, rid, "approved", reason)

\* POST /requests/{request_id}/approve
approve_request(tok, rid, reason) ==
    IF ResolveGuard(tok, rid) # HTTP_OK THEN Reject(ResolveGuard(tok, rid))
    ELSE LET out == apply_request(requests[rid].session_id, requests[rid])
         IN IF out.code # HTTP_OK THEN Reject(out.code)
            ELSE Resolve(out, rid, "approved", reason)

\* Faulty variant: deny applies the request as approve does.
deny_request_applying(tok, rid, reason) ==
    IF ResolveGuard(tok, rid) # HTTP_OK THEN Reject(ResolveGuard(tok, rid))
    ELSE LET out == apply_request(requests[rid].session_id, requests[rid])
         IN IF out.code # HTTP_OK THEN Reject(out.code)
            ELSE Resolve(out, rid, "denied", reason)

\* POST /requests/{request_id}/deny
deny_request(tok, rid, reason) ==
    IF ResolveGuard(tok, rid) # HTTP_OK THEN Reject(ResolveGuard(tok, rid))
    ELSE Resolve(Raise(HTTP_OK), rid, "denied", reason)

\* POST /sessions/{session_id}/playback: host only; the body is stored unvalidated.
update_playback(tok, sid, state_update) ==
    IF Admit(tok, sid) # HTTP_OK THEN Reject(Admit(tok, sid))
    ELSE IF users[tok].role # "host" THEN Reject(Forbidden)
    ELSE Result(HTTP_OK, items, update_playback_state(sid, state_update), nextItem,
                requests, logs, applied)

-----------------------------------------------------------------------------
(* Live channel (handle_websocket_message).  A message arrives on a         *)
(* connection that session_socket accepted: its token names a stored user   *)
(* who is a member of the connection's session.  The status of a message is *)
(* 200 when the handler returns and the HTTPException's code when it raises.*)

\* Faulty variant: every stored user is accepted on every stored session.
Connected_any_user(tok, sid) == get_actor(tok) = HTTP_OK /\ ensure_session(sid) = HTTP_OK

\* session_socket accepts the connection.
Connected(tok, sid) == Admit(tok, sid) = HTTP_OK

\* type = "playback_command"
ws_playback_command(tok, sid, action, track_id, position_ms) ==
    IF users[tok].role # "host" THEN Reject(Forbidden)
    ELSE Result(HTTP_OK, items,
                update_playback_state(sid, CommandUpdate(sid, action, track_id, position_ms)),
                nextItem, requests, logs, applied)

\* type = "request_playlist_change"
ws_request_playlist_change(tok, sid, request_type, payload) ==
    IF users[tok].role # "guest" THEN Reject(Forbidden)
    ELSE Submit(sid, tok, request_type, payload)

\* type = "approve_request": the mutation is applied to the connection's session.
ws_approve_request(tok, sid, rid, reason) ==
    IF users[tok].role # "host" THEN Reject(Forbidden)
    ELSE IF rid \notin 1..Len(requests) THEN Reject(NotFound)
    ELSE LET out == apply_request(sid, requests[rid])
         IN IF out.code # HTTP_OK THEN Reject(out.code)
            ELSE Resolve(out, rid, "approved", reason)

\* Faulty variant: the denial is not restricted to hosts.
ws_deny_request_any_role(tok, sid, rid, reason) ==
    IF rid \notin 1..Len(requests) THEN Reject(NotFound)
    ELSE Resolve(Raise(HTTP_OK), rid, "denied", reason)

\* type = "deny_request"
ws_deny_request(tok, sid, rid, reason) ==
    IF users[tok].role # "host" THEN Reject(Forbidden)
    ELSE IF rid \notin 1..Len(requests) THEN Reject(NotFound)
    ELSE Resolve(Raise(HTTP_OK), rid, "denied", reason)

\* type = "sync_ack" is a no-op; any other type is rejected with 400.
ws_other(tok, sid, type) ==
    IF type = "sync_ack" THEN Reject(HTTP_OK) ELSE Reject(BadRequest)

\* The step of a handler: the rows its result holds are the stored rows.
Call(r) ==
    /\ items' = r.items
    /\ playback' = r.playback
    /\ nextItem' = r.nextItem
    /\ requests' = r.requests
    /\ logs' = r.logs
    /\ applied' = r.applied
    /\ UNCHANGED <<users, sessions, clock>>

-----------------------------------------------------------------------------
(* Inputs.  A scenario names the values its callers present; the handlers   *)
(* are the same in every scenario.                                          *)

\* Item ids a caller can name: every id issued so far, and one never issued.
ItemsIn == BadItem..(nextItem - 1)
RequestsIn == BadRequestId..Len(requests)

Actions == {"play", "pause", "seek", "skip_next", "skip_prev"}
Optional(S) == {<<>>} \cup {<<x>> : x \in S}

\* (request_type, payload) pairs of a custom request or a request_playlist_change
\* message, by kind: the three mutation types with the keys apply_request reads
\* (a reorder may name a position below the range, an add any duration), a
\* free-form type, and a mutation type without its keys.
CustomRequests(kinds, tracks, positions, durations) ==
    {cr \in {<<"add", WithDuration(Payload(td[1], TRUE, NoInt, NoInt), td[2])>> : td \in tracks \X durations} :
         "add" \in kinds}
    \cup {cr \in {<<"reorder", Payload(None, FALSE, Some(ip[1]), Some(ip[2]))>> : ip \in ItemsIn \X positions} :
              "reorder" \in kinds}
    \cup {cr \in {<<"remove", Payload(None, FALSE, Some(i), NoInt)>> : i \in ItemsIn} : "remove" \in kinds}
    \cup {cr \in {<<"note", EmptyPayload>>} : "note" \in kinds}
    \cup {cr \in {<<"remove", EmptyPayload>>} : "nokeys" \in kinds}

\* The tests approve without a reason and deny with one.
ApproveReasons == {None}
DenyReasons == {"no"}

-----------------------------------------------------------------------------
(* Specification *)

NewPlayback == [track_id |-> None, position_ms |-> 0, state |-> "paused", updated_at |-> 0]

\* login, create_session and join_session have run: every host in hs has
\* created one session and one guest has joined each session.  An element of
\* hs is <<host, session, guest, max_media_duration_seconds>>.
Setup(hs) ==
    /\ users = [t \in {h[1] : h \in hs} \cup {h[3] : h \in hs} |->
                   LET h == CHOOSE x \in hs : t \in {x[1], x[3]}
                   IN [role |-> IF t = h[1] THEN "host" ELSE "guest", session_id |-> h[2]]]
    /\ sessions = [s \in {h[2] : h \in hs} |->
                      [host_id |-> (CHOOSE x \in hs : x[2] = s)[1],
                       max_media_duration_seconds |-> (CHOOSE x \in hs : x[2] = s)[4]]]
    /\ items = {}
    /\ nextItem = 1
    /\ playback = [s \in {h[2] : h \in hs} |-> NewPlayback]
    /\ requests = <<>>
    /\ logs = <<>>
    /\ applied = <<>>
    /\ clock = 0
    /\ active = [s \in {h[2] : h \in hs} |-> <<>>]
    /\ socket = <<>>
    /\ jobs = {}
    /\ pubs = <<>>

\* No more ids and log entries are issued than scenario I allows.
Within(I, r) ==
    /\ r.nextItem <= I.maxItems + 1
    /\ Len(r.requests) <= I.maxRequests
    /\ Len(r.logs) <= I.maxLogs

\* The handler's effect on the store alone: with no live connection accepted,
\* every broadcast finds no listener.
Step(I, r) == Within(I, r) /\ Call(r) /\ UNCHANGED hub

\* Every endpoint and every message type, on the inputs of scenario I.
Handlers(I) ==
    \/ \E tok \in I.tokens, sid \in I.sessions : Step(I, get_playlist(tok, sid))
    \/ \E tok \in I.tokens, sid \in I.sessions, t \in I.tracks \cup {None}, d \in I.durations :
           Step(I, add_playlist_item_endpoint(tok, sid, t, d))
    \/ \E tok \in I.tokens, sid \in I.sessions, i \in ItemsIn, p \in Optional(I.positions) :
           Step(I, reorder_playlist_endpoint(tok, sid, i, p))
    \/ \E tok \in I.tokens, sid \in I.sessions, i \in ItemsIn :
           Step(I, remove_playlist_item_endpoint(tok, sid, i))
    \/ \E tok \in I.tokens, sid \in I.sessions, cr \in CustomRequests(I.kinds, I.tracks, I.positions \cup {-1}, I.durations) :
           Step(I, submit_custom_request(tok, sid, cr[1], cr[2]))
    \/ \E tok \in I.tokens, rid \in RequestsIn, reason \in ApproveReasons :
           Step(I, approve_request(tok, rid, reason))
    \/ \E tok \in I.tokens, rid \in RequestsIn, reason \in DenyReasons :
           Step(I, deny_request(tok, rid, reason))
    \/ \E tok \in I.tokens, sid \in I.sessions, u \in I.updates :
           Step(I, update_playback(tok, sid, u))
    \/ \E tok \in DOMAIN users, sid \in DOMAIN sessions, c \in I.commands :
           Connected(tok, sid) /\ Step(I, ws_playback_command(tok, sid, c[1], c[2], c[3]))
    \/ \E tok \in DOMAIN users, sid \in DOMAIN sessions, cr \in CustomRequests(I.kinds, I.tracks, I.positions \cup {-1}, I.durations) :
           Connected(tok, sid) /\ Step(I, ws_request_playlist_change(tok, sid, cr[1], cr[2]))
    \/ \E tok \in DOMAIN users, sid \in DOMAIN sessions, rid \in RequestsIn, reason \in ApproveReasons :
           Connected(tok, sid) /\ Step(I, ws_approve_request(tok, sid, rid, reason))
    \/ \E tok \in DOMAIN users, sid \in DOMAIN sessions, rid \in RequestsIn, reason \in DenyReasons :
           Connected(tok, sid) /\ Step(I, ws_deny_request(tok, sid, rid, reason))
    \/ \E tok \in DOMAIN users, sid \in DOMAIN sessions, type \in {"sync_ack", "hello"} :
           Connected(tok, sid) /\ Step(I, ws_other(tok, sid, type))

\* The playlist and request engine: one session (host H1 created S1, guest G1
\* joined it), every playlist and request input, and playback inputs that
\* only stamp the state.
EngineInputs ==
    [tokens |-> {"H1", "G1"}, sessions |-> {"S1"}, tracks |-> Tracks,
     positions |-> 0..(MaxItems - 1),
     kinds |-> {"add", "reorder", "remove", "note", "nokeys"},
     updates |-> {StateUpdate(<<>>, <<>>, <<>>)},
     commands |-> {<<"pause", None, NoInt>>},
     durations |-> {NoInt},
     maxItems |-> MaxItems, maxRequests |-> MaxRequests, maxLogs |-> MaxLogs]

Init == Setup({<<"H1", "S1", "G1", NoInt>>})

Next == Handlers(EngineInputs)

Spec == Init /\ [][Next]_vars

\* Two sessions (H1 hosts S1 with guest G1, H2 hosts S2 with guest G2), callers
\* that present every stored token and an unknown one on every stored session
\* and an unknown one, and the smallest playlist and request inputs.
AuthInputs ==
    [tokens |-> {"H1", "G1", "H2", "G2", BadToken}, sessions |-> {"S1", "S2", BadSession},
     tracks |-> Tracks, positions |-> {0}, kinds |-> {"add", "reorder"},
     updates |-> {StateUpdate(<<>>, <<>>, <<"playing">>)},
     commands |-> {<<"pause", None, NoInt>>},
     durations |-> {NoInt},
     maxItems |-> AuthMaxItems, maxRequests |-> AuthMaxRequests, maxLogs |-> AuthMaxLogs]

InitAuth == Setup({<<"H1", "S1", "G1", NoInt>>, <<"H2", "S2", "G2", NoInt>>})

NextAuth == Handlers(AuthInputs)

SpecAuth == InitAuth /\ [][NextAuth]_vars

\* Playback: one session, every command on a known, an unknown and no track,
\* with and without a position, playback bodies that clear or replace the
\* track, and the host's playlist operations.
PlayInputs ==
    [tokens |-> {"H1", "G1"}, sessions |-> {"S1"}, tracks |-> Tracks,
     positions |-> {0}, kinds |-> {"note"},
     updates |-> {StateUpdate(<<None>>, <<>>, <<>>), StateUpdate(<<"t9">>, <<5>>, <<>>)},
     commands |-> Actions \X {None, "t2"} \X Optional({5}),
     durations |-> {NoInt},
     maxItems |-> PlayMaxItems, maxRequests |-> PlayMaxRequests, maxLogs |-> PlayMaxLogs]

NextPlay == Handlers(PlayInputs)

SpecPlay == Init /\ [][NextPlay]_vars

\* Duration cap: one session created with max_media_duration_seconds = 1, and
\* adds (direct, requested through the add endpoint, custom and live requests)
\* of unknown duration, of duration 1 and of duration 2.
CapInputs ==
    [tokens |-> {"H1", "G1"}, sessions |-> {"S1"}, tracks |-> {"t1"},
     positions |-> {0}, kinds |-> {"add"},
     updates |-> {StateUpdate(<<>>, <<>>, <<"playing">>)},
     commands |-> {<<"pause", None, NoInt>>},
     durations |-> {NoInt, Some(1), Some(2)},
     maxItems |-> CapMaxItems, maxRequests |-> CapMaxRequests, maxLogs |-> CapMaxLogs]

InitCap == Setup({<<"H1", "S1", "G1", Some(1)>>})

NextCap == Handlers(CapInputs)

SpecCap == InitCap /\ [][NextCap]_vars

\* Time passes: datetime.now(timezone.utc) gives a later instant.
Tick ==
    /\ clock < MaxClock
    /\ clock' = clock + 1
    /\ UNCHANGED <<users, sessions, items, nextItem, playback, requests, logs, applied, hub>>

\* The clock: one session, time passing between the calls, the host's adds
\* and removes, a pause command, and a playback body that names a position
\* and a mode the live channel would not accept.
ClockInputs ==
    [tokens |-> {"H1", "G1"}, sessions |-> {"S1"}, tracks |-> {"t1"},
     positions |-> {0}, kinds |-> {"add"},
     updates |-> {StateUpdate(<<>>, <<-1>>, <<"stopped">>)},
     commands |-> {<<"pause", None, NoInt>>},
     durations |-> {NoInt},
     maxItems |-> ClockMaxItems, maxRequests |-> ClockMaxRequests, maxLogs |-> ClockMaxLogs]

NextClock == Tick \/ Handlers(ClockInputs)

SpecClock == Init /\ [][NextClock]_vars

-----------------------------------------------------------------------------
(* Broadcast hub (ConnectionManager, session_socket and the broadcasts).    *)
(*                                                                           *)
(* active[sid] is manager.active[sid], the registered connections in         *)
(* registration order.  socket[c] is the c-th connection session_socket      *)
(* accepted: the token and session of its URL, every message sent to it      *)
(* so far, and where its handler stands:                                     *)
(*   "snapshot"  registered, playback_state sent, playlist_update to send;   *)
(*   "open"      awaiting receive_text;                                      *)
(*   "busy"      inside handle_websocket_message, awaiting a send;           *)
(*   "gone"      the client has closed, receive_text has not raised yet;     *)
(*   "closed"    the handler has ended through manager.disconnect;           *)
(*   "dead"      the handler has ended by an exception session_socket does   *)
(*               not catch.                                                  *)
(* A job is a handler whose commit is done and whose broadcasts are under    *)
(* way: its owner (the connection, or 0 for the REST call), the events it    *)
(* has still to publish, the event it is sending and the targets of that     *)
(* event not yet sent to.  pubs lists the publications in the order          *)
(* broadcast copied their targets; an event's id is its index there and the  *)
(* two snapshot messages carry id 0.                                         *)
(*                                                                           *)
(* The event loop switches tasks only at an await that suspends.  The lock   *)
(* is never held across an await, so acquiring it never suspends: the        *)
(* registration and the first snapshot send are one step, and so are a       *)
(* commit, the copy of the targets and the first send.  Every send may       *)
(* suspend, so every later send is a step of its own.                        *)

Event(type, id) == [type |-> type, id |-> id]

\* A publication: the event, the connections broadcast copied for it, and
\* whether an exception has left its loop.
Publication(ev, targets) ==
    [type |-> ev.type, session_id |-> ev.session_id, payload |-> ev.payload,
     targets |-> targets, aborted |-> FALSE]

Range(s) == {s[i] : i \in 1..Len(s)}

Hub(act, sock, jbs, pbs) == [active |-> act, socket |-> sock, jobs |-> jbs, pubs |-> pbs]

\* serialize_playlist: the items of the session in position order.
serialize_playlist(its, sid) ==
    LET sorted == SortedItems(its, sid)
    IN [i \in 1..Len(sorted) |->
           [id |-> sorted[i].id, track_id |-> sorted[i].track_id, position |-> sorted[i].position]]

\* serialize_playback
serialize_playback(pb, sid) == pb[sid]

\* The events a handler with result r publishes after its commit, in order.
\* A playlist_update or playback_state is the first event of its handler: it
\* is serialized from the rows the handler has just committed.  The payload of
\* a request_update is left out.
playlist_update(sid, r) ==
    [type |-> "playlist_update", session_id |-> sid, payload |-> serialize_playlist(r.items, sid)]
request_update(sid) == [type |-> "request_update", session_id |-> sid, payload |-> None]
playback_state(sid, r) ==
    [type |-> "playback_state", session_id |-> sid, payload |-> serialize_playback(r.playback, sid)]

\* add, reorder and remove endpoints: the host's mutation or the guest's request.
mutation_events(tok, sid, r) ==
    IF tok \in DOMAIN users /\ users[tok].role = "host" THEN <<playlist_update(sid, r)>>
    ELSE <<request_update(sid)>>

\* approve_request broadcasts to the request's session.
approve_events(rid, r) ==
    IF rid \in 1..Len(requests)
    THEN <<playlist_update(requests[rid].session_id, r), request_update(requests[rid].session_id)>>
    ELSE <<>>

deny_events(rid) ==
    IF rid \in 1..Len(requests) THEN <<request_update(requests[rid].session_id)>> ELSE <<>>

\* Live approve and deny broadcast the playlist of the connection's session
\* and the request to the request's session.
ws_resolve_events(sid, rid, r) ==
    IF rid \in 1..Len(requests)
    THEN <<playlist_update(sid, r), request_update(requests[rid].session_id)>>
    ELSE <<>>

\* The request a live request_playlist_change creates belongs to the
\* connection's session.
ws_request_events(sid) == <<request_update(sid)>>

\* websocket.send_text on a connection whose client is there.
send_text(sock, c, ev) == [sock EXCEPT ![c].received = Append(@, ev)]

\* Faulty variant: the connection is registered under every session.
connect_everywhere(tok, sid) ==
    LET c == Len(socket) + 1
    IN Hub([s \in DOMAIN active |-> Append(active[s], c)],
           Append(socket, [token |-> tok, session_id |-> sid, state |-> "snapshot",
                           received |-> <<Event("playback_state", 0)>>]),
           jobs, pubs)

\* manager.connect and the first snapshot send of session_socket.
connect(tok, sid) ==
    LET c == Len(socket) + 1
    IN Hub([active EXCEPT ![sid] = Append(@, c)],
           Append(socket, [token |-> tok, session_id |-> sid, state |-> "snapshot",
                           received |-> <<Event("playback_state", 0)>>]),
           jobs, pubs)

\* session_socket closes the connection with code 4003 and returns: nothing
\* is registered and nothing is sent.
refuse(tok, sid) ==
    Hub(active,
        Append(socket, [token |-> tok, session_id |-> sid, state |-> "refused", received |-> <<>>]),
        jobs, pubs)

\* The opening of session_socket for the token and the session of the URL.
open_socket(tok, sid) == IF Connected(tok, sid) THEN connect(tok, sid) ELSE refuse(tok, sid)

\* The second snapshot send; the handler then awaits the first message.
snapshot(c) ==
    Hub(active,
        [send_text(socket, c, Event("playlist_update", 0)) EXCEPT ![c].state = "open"],
        jobs, pubs)

\* manager.disconnect
disconnect(act, sid, c) == [act EXCEPT ![sid] = SelectSeq(@, LAMBDA x : x # c)]

\* A send reaches a connection whose client is there, or stalls: the client
\* does not read and the send never completes.  To one whose client
\* has closed, or whose handler has ended, it either raises RuntimeError (or
\* is dropped by the server), or raises another exception: WebSocketDisconnect
\* and the server's connection-closed errors.
Healthy(c) == socket[c].state \in {"snapshot", "open", "busy"}

SendOutcomes(c) == IF Healthy(c) THEN {"sent", "stalled"} ELSE {"RuntimeError", "WebSocketDisconnect"}

Owners == {j.owner : j \in jobs}

\* blocked: the send under way never completes.  locked: the handler is
\* inside `async with self.lock` of manager.broadcast.
Job(o, events) ==
    [owner |-> o, events |-> events, ev |-> Event(None, 0), targets |-> <<>>, blocked |-> FALSE,
     locked |-> FALSE]

\* `async with self.lock:` of manager.broadcast: the lock is free at every
\* suspension of another handler, so it is acquired without waiting.
acquire(j) == [j EXCEPT !.locked = TRUE]

\* Faulty variant: the sends are inside the block and the lock is kept.
release_after_sends(j) == j

\* The block ends after the copy of the registered connections.
release(j) == [j EXCEPT !.locked = FALSE]

\* self.active.get(session_id, []): no connection was ever registered under a
\* session that is not stored.
active_get(sid) == IF sid \in DOMAIN active THEN active[sid] ELSE <<>>

\* The connection the job sends to next, 0 when it has no send left: a
\* broadcast with no registered connection sends nothing and does not suspend.
NextTarget(j) ==
    IF j.targets # <<>> THEN Head(j.targets)
    ELSE IF j.events # <<>> /\ active_get(j.events[1].session_id) # <<>>
         THEN Head(active_get(j.events[1].session_id))
         ELSE 0

Outcomes(j) == IF NextTarget(j) = 0 THEN {"sent"} ELSE SendOutcomes(NextTarget(j))

\* The handler of job j returns: a connection's handler awaits the next message.
Return(h, j) ==
    Hub(h.active,
        IF j.owner = 0 THEN h.socket ELSE [h.socket EXCEPT ![j.owner].state = "open"],
        {k \in h.jobs : k.owner # j.owner}, h.pubs)

\* An exception leaves broadcast and the handler.  In session_socket the only
\* handler is `except WebSocketDisconnect`, which deregisters the connection
\* the message came from; a REST call is answered 500 after its commit.
Abort(h, j) ==
    Hub(IF j.owner = 0 THEN h.active
        ELSE disconnect(h.active, h.socket[j.owner].session_id, j.owner),
        IF j.owner = 0 THEN h.socket ELSE [h.socket EXCEPT ![j.owner].state = "closed"],
        {k \in h.jobs : k.owner # j.owner},
        [h.pubs EXCEPT ![j.ev.id].aborted = TRUE])

\* One step of the broadcasts of job j, the send ending as x: the next send
\* of the event under way or, when its targets are exhausted, the copy of the
\* registered connections for the next event and the first send to them.
\* RuntimeError is swallowed and the loop goes on; any other exception leaves
\* the loop; a send that stalls keeps the loop, and the handler, waiting.
broadcast(j, x) ==
    LET capture == j.targets = <<>>
        ev == IF capture THEN Event(j.events[1].type, Len(pubs) + 1) ELSE j.ev
        targets == IF capture THEN active_get(j.events[1].session_id) ELSE j.targets
        pbs == IF capture THEN Append(pubs, Publication(j.events[1], targets)) ELSE pubs
        busy == IF j.owner = 0 THEN socket ELSE [socket EXCEPT ![j.owner].state = "busy"]
        copied == IF capture THEN release([acquire(j) EXCEPT !.events = Tail(@)]) ELSE j
        j1 == [copied EXCEPT !.ev = ev, !.targets = Tail(targets)]
        rest == {k \in jobs : k.owner # j.owner}
    IN IF NextTarget(j) = 0 THEN Return(Hub(active, socket, jobs, pubs), j)
       ELSE IF x = "sent" THEN Hub(active, send_text(busy, Head(targets), ev), rest \cup {j1}, pbs)
       ELSE IF x = "stalled" THEN Hub(active, busy, rest \cup {[j1 EXCEPT !.blocked = TRUE]}, pbs)
       ELSE IF x = "RuntimeError" THEN Hub(active, busy, rest \cup {j1}, pbs)
       ELSE Abort(Hub(active, busy, rest, pbs), j1)

\* A REST handler with result r: when it raises nothing is broadcast; when it
\* has committed, its broadcasts start.
rest_call(r, events, x) ==
    IF r.status # HTTP_OK THEN Hub(active, socket, jobs, pubs)
    ELSE broadcast(Job(0, events), x)

\* The loop of session_socket on a message of connection c with result r.
\* The HTTPException of a rejected message is not caught by session_socket:
\* the handler ends, the server closes the connection, and the connection
\* stays in manager.active.
session_socket(c, r, events, x) ==
    IF r.status # HTTP_OK THEN Hub(active, [socket EXCEPT ![c].state = "dead"], jobs, pubs)
    ELSE broadcast(Job(c, events), x)

\* The client of an idle connection closes it.
client_close(c) == Hub(active, [socket EXCEPT ![c].state = "gone"], jobs, pubs)

\* receive_text raises WebSocketDisconnect: session_socket deregisters.
receive_disconnect(c) ==
    Hub(disconnect(active, socket[c].session_id, c),
        [socket EXCEPT ![c].state = "closed"], jobs, pubs)

HubCall(h) ==
    /\ active' = h.active
    /\ socket' = h.socket
    /\ jobs' = h.jobs
    /\ pubs' = h.pubs

Store == <<users, sessions, items, nextItem, playback, requests, logs, applied, clock>>

RECURSIVE Pending(_)
\* The events the jobs of js have still to publish.
Pending(js) ==
    IF js = {} THEN 0
    ELSE LET j == CHOOSE k \in js : TRUE IN Len(j.events) + Pending(js \ {j})

\* No more connections are accepted and no more events are published than
\* the scenario allows; a handler starts only if its events fit.
HubWithin(I, h) ==
    /\ Len(h.socket) <= I.maxConns
    /\ Len(h.pubs) + Pending(h.jobs) <= I.maxEvents

\* A REST call while no other REST call is broadcasting.
Rest(I, r, events) ==
    /\ 0 \notin Owners
    /\ Within(I, r)
    /\ \E x \in Outcomes(Job(0, events)) :
           /\ HubWithin(I, rest_call(r, events, x))
           /\ Call(r)
           /\ HubCall(rest_call(r, events, x))

\* A message arrives on connection c, whose handler awaits one.
Live(I, c, r, events) ==
    /\ socket[c].state = "open"
    /\ Within(I, r)
    /\ \E x \in Outcomes(Job(c, events)) :
           /\ HubWithin(I, session_socket(c, r, events, x))
           /\ Call(r)
           /\ HubCall(session_socket(c, r, events, x))

Conns == 1..Len(socket)

\* Every endpoint and every message type with its broadcasts, the connections
\* and the closes, on the inputs of scenario I.
HubHandlers(I) ==
    \/ \E tok \in I.members, sid \in I.sessions :
           /\ Connected(tok, sid)
           /\ HubWithin(I, connect(tok, sid))
           /\ HubCall(connect(tok, sid))
           /\ UNCHANGED Store
    \/ \E c \in Conns :
           socket[c].state = "snapshot" /\ HubCall(snapshot(c)) /\ UNCHANGED Store
    \/ \E c \in Conns :
           socket[c].state = "open" /\ HubCall(client_close(c)) /\ UNCHANGED Store
    \/ \E c \in Conns :
           socket[c].state = "gone" /\ HubCall(receive_disconnect(c)) /\ UNCHANGED Store
    \/ \E j \in jobs, x \in {"sent", "stalled", "RuntimeError", "WebSocketDisconnect"} :
           ~j.blocked /\ x \in Outcomes(j) /\ HubCall(broadcast(j, x)) /\ UNCHANGED Store
    \/ \E tok \in I.tokens, sid \in I.sessions : Rest(I, get_playlist(tok, sid), <<>>)
    \/ \E tok \in I.tokens, sid \in I.sessions, t \in I.tracks \cup {None}, d \in I.durations :
           LET r == add_playlist_item_endpoint(tok, sid, t, d)
           IN Rest(I, r, mutation_events(tok, sid, r))
    \/ \E tok \in I.tokens, sid \in I.sessions, i \in ItemsIn, p \in Optional(I.positions) :
           LET r == reorder_playlist_endpoint(tok, sid, i, p)
           IN Rest(I, r, mutation_events(tok, sid, r))
    \/ \E tok \in I.tokens, sid \in I.sessions, i \in ItemsIn :
           LET r == remove_playlist_item_endpoint(tok, sid, i)
           IN Rest(I, r, mutation_events(tok, sid, r))
    \/ \E tok \in I.tokens, sid \in I.sessions, cr \in CustomRequests(I.kinds, I.tracks, I.positions, I.durations) :
           Rest(I, submit_custom_request(tok, sid, cr[1], cr[2]), <<request_update(sid)>>)
    \/ \E tok \in I.tokens, rid \in RequestsIn, reason \in ApproveReasons :
           LET r == approve_request(tok, rid, reason)
           IN Rest(I, r, approve_events(rid, r))
    \/ \E tok \in I.tokens, rid \in RequestsIn, reason \in DenyReasons :
           Rest(I, deny_request(tok, rid, reason), deny_events(rid))
    \/ \E tok \in I.tokens, sid \in I.sessions, u \in I.updates :
           LET r == update_playback(tok, sid, u)
           IN Rest(I, r, <<playback_state(sid, r)>>)
    \/ \E c \in Conns, m \in I.commands :
           LET r == ws_playback_command(socket[c].token, socket[c].session_id, m[1], m[2], m[3])
           IN Live(I, c, r, <<playback_state(socket[c].session_id, r)>>)
    \/ \E c \in Conns, cr \in CustomRequests(I.kinds, I.tracks, I.positions, I.durations) :
           Live(I, c, ws_request_playlist_change(socket[c].token, socket[c].session_id, cr[1], cr[2]),
                ws_request_events(socket[c].session_id))
    \/ \E c \in Conns, rid \in RequestsIn, reason \in ApproveReasons :
           LET r == ws_approve_request(socket[c].token, socket[c].session_id, rid, reason)
           IN Live(I, c, r, ws_resolve_events(socket[c].session_id, rid, r))
    \/ \E c \in Conns, rid \in RequestsIn, reason \in DenyReasons :
           LET r == ws_deny_request(socket[c].token, socket[c].session_id, rid, reason)
           IN Live(I, c, r, ws_resolve_events(socket[c].session_id, rid, r))
    \/ \E c \in Conns, type \in {"sync_ack", "hello"} :
           Live(I, c, ws_other(socket[c].token, socket[c].session_id, type), <<>>)

\* The hub: one session, its host and its guest on live connections, its
\* guest on the REST endpoints, and the smallest playlist and request inputs.
\* The host acts through its live connection, where it plays and pauses.
HubInputs ==
    [members |-> {"H1", "G1"}, tokens |-> {"G1"}, sessions |-> {"S1"}, tracks |-> {"t1"},
     positions |-> {0}, kinds |-> {"add"},
     updates |-> {StateUpdate(<<>>, <<>>, <<"playing">>)},
     commands |-> {<<"play", None, NoInt>>, <<"pause", None, NoInt>>},
     durations |-> {NoInt},
     maxItems |-> HubMaxItems, maxRequests |-> HubMaxRequests, maxLogs |-> HubMaxLogs,
     maxConns |-> HubMaxConns, maxEvents |-> HubMaxEvents]

NextHub == HubHandlers(HubInputs)

SpecHub == Init /\ [][NextHub]_vars

\* The handlers that change a playlist, with their broadcasts: the host's add,
\* reorder and remove endpoints, a member's custom request, and the approval
\* of a request on the REST endpoint and on a live connection.
MutationHandlers(I) ==
    \/ \E tok \in I.members, sid \in I.sessions :
           /\ Connected(tok, sid)
           /\ HubWithin(I, connect(tok, sid))
           /\ HubCall(connect(tok, sid))
           /\ UNCHANGED Store
    \/ \E c \in Conns :
           socket[c].state = "snapshot" /\ HubCall(snapshot(c)) /\ UNCHANGED Store
    \/ \E j \in jobs, x \in {"sent", "stalled"} :
           ~j.blocked /\ x \in Outcomes(j) /\ HubCall(broadcast(j, x)) /\ UNCHANGED Store
    \/ \E tok \in I.tokens, sid \in I.sessions, t \in I.tracks, d \in I.durations :
           LET r == add_playlist_item_endpoint(tok, sid, t, d)
           IN Rest(I, r, mutation_events(tok, sid, r))
    \/ \E tok \in I.tokens, sid \in I.sessions, i \in ItemsIn, p \in Optional(I.positions) :
           LET r == reorder_playlist_endpoint(tok, sid, i, p)
           IN Rest(I, r, mutation_events(tok, sid, r))
    \/ \E tok \in I.tokens, sid \in I.sessions, i \in ItemsIn :
           LET r == remove_playlist_item_endpoint(tok, sid, i)
           IN Rest(I, r, mutation_events(tok, sid, r))
    \/ \E tok \in I.tokens, sid \in I.sessions, cr \in CustomRequests(I.kinds, I.tracks, I.positions, I.durations) :
           Rest(I, submit_custom_request(tok, sid, cr[1], cr[2]), <<request_update(sid)>>)
    \/ \E tok \in I.tokens, rid \in RequestsIn, reason \in ApproveReasons :
           LET r == approve_request(tok, rid, reason)
           IN Rest(I, r, approve_events(rid, r))
    \/ \E c \in Conns, rid \in RequestsIn, reason \in ApproveReasons :
           LET r == ws_approve_request(socket[c].token, socket[c].session_id, rid, reason)
           IN Live(I, c, r, ws_resolve_events(socket[c].session_id, rid, r))

\* The connections' life and the handlers that publish to a session other than
\* the caller's: every opening of a connection, accepted or refused, the
\* closes, a member's custom request, and a host's live approve and deny.
GateHandlers(I) ==
    \/ \E tok \in I.members, sid \in I.sessions :
           /\ HubWithin(I, open_socket(tok, sid))
           /\ HubCall(open_socket(tok, sid))
           /\ UNCHANGED Store
    \/ \E c \in Conns :
           socket[c].state = "snapshot" /\ HubCall(snapshot(c)) /\ UNCHANGED Store
    \/ \E c \in Conns :
           socket[c].state = "open" /\ HubCall(client_close(c)) /\ UNCHANGED Store
    \/ \E c \in Conns :
           socket[c].state = "gone" /\ HubCall(receive_disconnect(c)) /\ UNCHANGED Store
    \/ \E j \in jobs, x \in {"sent", "stalled", "RuntimeError", "WebSocketDisconnect"} :
           ~j.blocked /\ x \in Outcomes(j) /\ HubCall(broadcast(j, x)) /\ UNCHANGED Store
    \/ \E tok \in I.tokens, sid \in I.sessions, cr \in CustomRequests(I.kinds, I.tracks, I.positions, I.durations) :
           Rest(I, submit_custom_request(tok, sid, cr[1], cr[2]), <<request_update(sid)>>)
    \/ \E c \in Conns, rid \in RequestsIn, reason \in ApproveReasons :
           LET r == ws_approve_request(socket[c].token, socket[c].session_id, rid, reason)
           IN Live(I, c, r, ws_resolve_events(socket[c].session_id, rid, r))
    \/ \E c \in Conns, rid \in RequestsIn, reason \in DenyReasons :
           LET r == ws_deny_request(socket[c].token, socket[c].session_id, rid, reason)
           IN Live(I, c, r, ws_resolve_events(socket[c].session_id, rid, r))

\* Two sessions: the host of one and the guest of the other, and an unknown
\* token, open connections to both and to an unknown session; the guest
\* submits an add request that the other session's host resolves.
GateInputs ==
    [members |-> {"H1", "G2", BadToken}, tokens |-> {"G2"}, sessions |-> {"S1", "S2", BadSession},
     tracks |-> {"t1"}, positions |-> {0}, kinds |-> {"add"},
     durations |-> {NoInt},
     maxItems |-> GateMaxItems, maxRequests |-> GateMaxRequests, maxLogs |-> GateMaxLogs,
     maxConns |-> GateMaxConns, maxEvents |-> GateMaxEvents]

NextGate == GateHandlers(GateInputs)

SpecGate == InitAuth /\ [][NextGate]_vars

\* Concurrent mutations: one session whose host adds, reorders and removes on
\* the REST endpoints, submits reorder requests and approves them there and
\* on a live connection, each while the broadcast of another call is under way.
RaceInputs ==
    [members |-> {"H1"}, tokens |-> {"H1"}, sessions |-> {"S1"}, tracks |-> {"t1"},
     positions |-> {0, 1}, kinds |-> {"reorder"},
     durations |-> {NoInt},
     maxItems |-> RaceMaxItems, maxRequests |-> RaceMaxRequests, maxLogs |-> RaceMaxLogs,
     maxConns |-> RaceMaxConns, maxEvents |-> RaceMaxEvents]

NextRace == MutationHandlers(RaceInputs)

SpecRace == Init /\ [][NextRace]_vars

-----------------------------------------------------------------------------
(* Properties.  A property about a handler quantifies over the calls that   *)
(* can be made in a reachable state and constrains the handler's result,    *)
(* which is the state the handler's step leads to.                          *)

\* The three mutation kinds, as a guest can submit them with well-formed keys.
MutationRequests == CustomRequests({"add", "reorder", "remove"}, Tracks, 0..(MaxItems - 1), {NoInt})

\* C1: in every reachable state the positions of each session's playlist items
\* are exactly 0..n-1, n the number of its items, and no two items share one.
C1_DensePositions ==
    \A sid \in DOMAIN sessions :
        LET its == SessionItems(items, sid)
        IN /\ {it.position : it \in its} = 0..(Cardinality(its) - 1)
           /\ \A a, b \in its : a.position = b.position => a = b

\* C1 case: items were added, one was removed, the rest were reordered, and an
\* approved request applied one of these mutations.
C1_Witness ==
    /\ Cardinality(items) >= 2
    /\ nextItem - 1 > Cardinality(items)
    /\ \E a, b \in items : a.id < b.id /\ a.position > b.position
    /\ \E rid \in 1..Len(requests) : requests[rid].status = "approved" /\ applied[rid] >= 1

\* C2: once a request is approved or denied, every later approve or deny of it,
\* by any user through the REST operation or a live message, is refused and
\* leaves the request's status and reason as they are.
C2_ResolvedOnce ==
    \A rid \in 1..Len(requests) : requests[rid].status # "pending" =>
        LET Refused(r) == /\ r.status # HTTP_OK
                          /\ r.requests[rid].status = requests[rid].status
                          /\ r.requests[rid].reason = requests[rid].reason
        IN \A tok \in DOMAIN users :
              /\ Refused(approve_request(tok, rid, None))
              /\ Refused(deny_request(tok, rid, "no"))
              /\ \A sid \in DOMAIN sessions : Connected(tok, sid) =>
                    /\ Refused(ws_approve_request(tok, sid, rid, None))
                    /\ Refused(ws_deny_request(tok, sid, rid, "no"))

\* C3: the mutation of a request has been applied at most once, and exactly
\* once if the request is approved.
C3_AppliedOnce ==
    \A rid \in 1..Len(requests) :
        /\ applied[rid] <= 1
        /\ requests[rid].status = "approved" => applied[rid] = 1

\* C4: every add, reorder or remove a guest of the session attempts with a
\* well-formed body (the three playlist endpoints, a custom request, the live
\* request_playlist_change message) succeeds, leaves every playlist and
\* playback state unchanged, and appends exactly one request, which is pending.
C4_GuestAttemptsBecomeRequests ==
    \A tok \in DOMAIN users, sid \in DOMAIN sessions :
        (users[tok].role = "guest" /\ users[tok].session_id = sid) =>
            LET Requested(r) ==
                    /\ r.status = HTTP_OK
                    /\ r.items = items
                    /\ r.playback = playback
                    /\ Len(r.requests) = Len(requests) + 1
                    /\ SubSeq(r.requests, 1, Len(requests)) = requests
                    /\ r.requests[Len(r.requests)].status = "pending"
                    /\ r.requests[Len(r.requests)].session_id = sid
            IN /\ \A t \in Tracks : Requested(add_playlist_item_endpoint(tok, sid, t, NoInt))
               /\ \A i \in ItemsIn, pos \in 0..(MaxItems - 1) :
                      Requested(reorder_playlist_endpoint(tok, sid, i, Some(pos)))
               /\ \A i \in ItemsIn : Requested(remove_playlist_item_endpoint(tok, sid, i))
               /\ \A cr \in MutationRequests :
                      /\ Requested(submit_custom_request(tok, sid, cr[1], cr[2]))
                      /\ Requested(ws_request_playlist_change(tok, sid, cr[1], cr[2]))

\* C4 case: a guest's mutation attempt is stored as a pending request while the
\* playlist holds items and a track is current.
C4_Witness ==
    /\ items # {}
    /\ \E sid \in DOMAIN sessions : playback[sid].track_id # None
    /\ \E rid \in 1..Len(requests) :
          /\ requests[rid].status = "pending"
          /\ users[requests[rid].requester].role = "guest"
          /\ requests[rid].request_type \in {"add", "reorder", "remove"}

\* C5: an approve or deny by a user who is not the host of the request's
\* session (a guest, or the host of another session), through the REST
\* operation or a live message on a connection of that user, is refused and
\* changes neither the request's status nor any playlist.
C5_OnlySessionHostResolves ==
    \A rid \in 1..Len(requests), tok \in DOMAIN users :
        sessions[requests[rid].session_id].host_id # tok =>
            LET Refused(r) == /\ r.status # HTTP_OK
                              /\ r.requests[rid].status = requests[rid].status
                              /\ r.items = items
            IN /\ Refused(approve_request(tok, rid, None))
               /\ Refused(deny_request(tok, rid, "no"))
               /\ \A sid \in DOMAIN sessions : Connected(tok, sid) =>
                     /\ Refused(ws_approve_request(tok, sid, rid, None))
                     /\ Refused(ws_deny_request(tok, sid, rid, "no"))

\* C6: a stored user is admitted to a session exactly when it is the session's
\* host or a guest bound to the session; for any other stored user every
\* session-scoped operation answers Forbidden and changes nothing, and the
\* live connection is not accepted.
C6_MembersOnly ==
    \A tok \in DOMAIN users, sid \in DOMAIN sessions :
        LET member == \/ users[tok].role = "host" /\ sessions[sid].host_id = tok
                      \/ users[tok].role = "guest" /\ users[tok].session_id = sid
            Denied(r) == r = Reject(Forbidden)
        IN IF member
           THEN get_playlist(tok, sid).status = HTTP_OK /\ Connected(tok, sid)
           ELSE /\ Denied(get_playlist(tok, sid))
                /\ \A t \in Tracks \cup {None} : Denied(add_playlist_item_endpoint(tok, sid, t, NoInt))
                /\ \A i \in ItemsIn, pos \in Optional(0..(MaxItems - 1)) :
                       Denied(reorder_playlist_endpoint(tok, sid, i, pos))
                /\ \A i \in ItemsIn : Denied(remove_playlist_item_endpoint(tok, sid, i))
                /\ \A cr \in MutationRequests : Denied(submit_custom_request(tok, sid, cr[1], cr[2]))
                /\ \A t \in {<<>>, <<None>>, <<"t1">>} :
                       Denied(update_playback(tok, sid, StateUpdate(t, <<>>, <<"playing">>)))
                /\ ~Connected(tok, sid)

\* C6 case: both sessions hold items and a request is stored, and a host and a
\* guest of one session are answered Forbidden on the other.
C6_Witness ==
    /\ \A sid \in DOMAIN sessions : SessionItems(items, sid) # {}
    /\ Len(requests) >= 1
    /\ \E h, g \in DOMAIN users, sid \in DOMAIN sessions :
          /\ users[h].role = "host" /\ sessions[sid].host_id # h
          /\ users[g].role = "guest" /\ users[g].session_id # sid
          /\ add_playlist_item_endpoint(h, sid, "t1", NoInt).status = Forbidden
          /\ remove_playlist_item_endpoint(g, sid, 1).status = Forbidden

\* C7: when the host's reorder of item x to new position pos succeeds, pos
\* lies in 0..n-1, x is at position pos, every two other items are in the same
\* relative order as before, and the playlist holds the same items.
C7_ReorderMoves ==
    \A sid \in DOMAIN sessions, x \in ItemsIn, pos \in (-1)..MaxItems :
        LET r == reorder_playlist_endpoint(sessions[sid].host_id, sid, x, Some(pos))
            old == SessionItems(items, sid)
            new == SessionItems(r.items, sid)
            PositionOf(id) == (CHOOSE it \in new : it.id = id).position
        IN r.status = HTTP_OK =>
              /\ 0 <= pos /\ pos <= Cardinality(old) - 1
              /\ Cardinality(new) = Cardinality(old)
              /\ {[it EXCEPT !.position = 0] : it \in new} = {[it EXCEPT !.position = 0] : it \in old}
              /\ PositionOf(x) = pos
              /\ \A a, b \in old :
                     (a.id # x /\ b.id # x /\ a.position < b.position) =>
                         PositionOf(a.id) < PositionOf(b.id)

\* C7 case: a playlist of three items in which a reorder has moved an item
\* past another (items are added in id order and a removal keeps the order).
C7_Witness ==
    /\ Cardinality(SessionItems(items, "S1")) = 3
    /\ \E a, b \in items : a.id < b.id /\ a.position > b.position

\* C8: a deny by the host of the request's session, through the REST operation
\* or a live message, succeeds, sets the request's status to denied, and leaves
\* every playlist item, position and playback state as it was.
C8_DenyLeavesPlaylist ==
    \A rid \in 1..Len(requests) :
        LET sid == requests[rid].session_id
            Denied(r) == /\ r.status = HTTP_OK
                         /\ r.requests[rid].status = "denied"
                         /\ r.items = items
                         /\ r.playback = playback
        IN /\ Denied(deny_request(sessions[sid].host_id, rid, "no"))
           /\ Denied(ws_deny_request(sessions[sid].host_id, sid, rid, "no"))

\* C8 case: a request that would have changed the playlist had it been
\* approved is denied, and the playlist holds items.
C8_Witness ==
    /\ items # {}
    /\ \E rid \in 1..Len(requests) :
          /\ requests[rid].status = "denied"
          /\ applied[rid] = 0
          /\ apply_request(requests[rid].session_id, requests[rid]).code = HTTP_OK
          /\ apply_request(requests[rid].session_id, requests[rid]).items # items

\* C9: a skip_next or skip_prev command of the host sets the current track to
\* the item at index min(i+1, n-1) resp. max(i-1, 0) of the playlist in position
\* order, i the first index that carries the current track (0 if there is no
\* current track or no item carries it), and to no track on an empty playlist;
\* the position becomes 0 and the mode stays.
C9_SkipClamps ==
    \A sid \in DOMAIN sessions, action \in {"skip_next", "skip_prev"},
       t \in {None, "t2"}, pos \in Optional({5}) :
        LET r == ws_playback_command(sessions[sid].host_id, sid, action, t, pos)
            sorted == SortedItems(items, sid)
            n == Len(sorted)
            carrying == {k \in 0..(n - 1) : sorted[k + 1].track_id = playback[sid].track_id}
            i == IF carrying = {} THEN 0 ELSE CHOOSE k \in carrying : \A m \in carrying : k <= m
            target == IF action = "skip_next"
                      THEN (IF i + 1 < n - 1 THEN i + 1 ELSE n - 1)
                      ELSE (IF i - 1 > 0 THEN i - 1 ELSE 0)
        IN /\ r.status = HTTP_OK
           /\ r.playback[sid].track_id = IF n = 0 THEN None ELSE sorted[target + 1].track_id
           /\ r.playback[sid].position_ms = 0
           /\ r.playback[sid].state = playback[sid].state
           /\ r.items = items

\* C9 case: three items, the last one current and carried by no earlier item,
\* playing from position 0: skip_next stays on it and skip_prev leaves it.
C9_Witness ==
    LET sorted == SortedItems(items, "S1")
    IN /\ Len(sorted) = 3
       /\ playback["S1"].track_id = sorted[3].track_id
       /\ sorted[1].track_id # sorted[3].track_id
       /\ sorted[2].track_id # sorted[3].track_id
       /\ playback["S1"].state = "playing"
       /\ playback["S1"].position_ms = 0
       /\ ws_playback_command("H1", "S1", "skip_next", None, NoInt).playback = playback
       /\ ws_playback_command("H1", "S1", "skip_prev", None, NoInt).playback # playback

\* C10: when a guest's pending reorder request names an item that is no longer
\* in the session's playlist, the host's approve answers NotFound, the request
\* stays as it is, and the playlist is unchanged with dense positions.
C10_ApproveAfterRemoveNotFound ==
    \A rid \in 1..Len(requests) :
        LET req == requests[rid]
            r == approve_request(sessions[req.session_id].host_id, rid, None)
        IN (/\ req.status = "pending"
            /\ req.request_type = "reorder"
            /\ users[req.requester].role = "guest"
            /\ req.payload.item_id # NoInt
            /\ req.payload.new_position # NoInt
            /\ req.payload.new_position[1] >= 0
            /\ req.payload.item_id[1] \in 1..(nextItem - 1)
            /\ ~\E it \in items : it.id = req.payload.item_id[1])
           => /\ r.status = NotFound
              /\ r.requests = requests
              /\ r.items = items
              /\ \A sid \in DOMAIN sessions :
                     {it.position : it \in SessionItems(r.items, sid)}
                         = 0..(Cardinality(SessionItems(r.items, sid)) - 1)

\* C11: for every pending add, reorder or remove request whose mutation the
\* host could perform directly with the same parameters, the host's approve
\* (REST or live) succeeds, leaves the playlist and playback state that the
\* direct mutation leaves, and the request ends approved.
C11_ApproveEqualsDirect ==
    \A rid \in 1..Len(requests) :
        LET req == requests[rid]
            sid == req.session_id
            host == sessions[sid].host_id
            pl == req.payload
            direct ==
                IF req.request_type = "add" /\ pl.media
                    THEN add_playlist_item_endpoint(host, sid, pl.track_id, pl.duration_seconds)
                ELSE IF req.request_type = "reorder" /\ pl.item_id # NoInt
                    THEN reorder_playlist_endpoint(host, sid, pl.item_id[1], pl.new_position)
                ELSE IF req.request_type = "remove" /\ pl.item_id # NoInt
                    THEN remove_playlist_item_endpoint(host, sid, pl.item_id[1])
                ELSE Reject(Validation)
            Same(r) == /\ r.status = HTTP_OK
                       /\ r.items = direct.items
                       /\ r.playback = direct.playback
                       /\ r.requests[rid].status = "approved"
        IN (req.status = "pending" /\ direct.status = HTTP_OK) =>
               /\ Same(approve_request(host, rid, None))
               /\ Same(ws_approve_request(host, sid, rid, None))

\* C11 case: a request was approved once and its mutation changed a playlist
\* that already held items.
C11_Witness ==
    /\ Cardinality(items) >= 2
    /\ \E rid \in 1..Len(requests) :
          /\ requests[rid].status = "approved"
          /\ requests[rid].request_type \in {"add", "reorder", "remove"}
          /\ applied[rid] = 1

\* C12: in a session created with a maximum media duration, every playlist
\* item has a known duration of at most that maximum.
C12_ItemsWithinCap ==
    \A it \in items :
        LET cap == sessions[it.session_id].max_media_duration_seconds
        IN cap # NoInt =>
               /\ it.duration_seconds # NoInt
               /\ it.duration_seconds[1] <= cap[1]

\* C18: when the host's approve of a pending request fails (the type is not
\* add, reorder or remove: BadRequest; the mutation fails: NotFound or
\* BadRequest), the requests, the audit log, the playlists and the playback
\* states are as before; an approve of an unknown type always fails.
C18_FailedApproveChangesNothing ==
    \A rid \in 1..Len(requests) :
        LET req == requests[rid]
            host == sessions[req.session_id].host_id
            Kept(r) ==
                /\ req.request_type \notin {"add", "reorder", "remove"} => r.status = BadRequest
                /\ r.status # HTTP_OK =>
                       /\ r.requests = requests
                       /\ r.logs = logs
                       /\ r.items = items
                       /\ r.playback = playback
        IN req.status = "pending" =>
               /\ Kept(approve_request(host, rid, None))
               /\ Kept(ws_approve_request(host, req.session_id, rid, None))

\* C18 case: a pending reorder request names an item that is not in the
\* playlist, the playlist holds items, and the approve answers NotFound.
C18_Witness ==
    /\ items # {}
    /\ \E rid \in 1..Len(requests) :
          /\ requests[rid].status = "pending"
          /\ requests[rid].request_type = "reorder"
          /\ approve_request(sessions[requests[rid].session_id].host_id, rid, None).status = NotFound

\* C19: in every reachable state each request has audit entries, the first is
\* (pending, submitted) and the status of the latest is the request's status;
\* and every step keeps the entries written so far and appends at most one
\* entry, exactly one when a request is created or its status changes.
C19_AuditLog ==
    /\ [](\A rid \in 1..Len(requests) :
             LET mine == SelectSeq(logs, LAMBDA e : e.request_id = rid)
             IN /\ Len(mine) >= 1
                /\ mine[1].status = "pending" /\ mine[1].message = "submitted"
                /\ mine[Len(mine)].status = requests[rid].status)
    /\ [][/\ Len(logs') \in {Len(logs), Len(logs) + 1}
          /\ SubSeq(logs', 1, Len(logs)) = logs
          /\ \A rid \in 1..Len(requests') :
                 (rid > Len(requests) \/ requests'[rid].status # requests[rid].status) =>
                     /\ Len(logs') = Len(logs) + 1
                     /\ logs'[Len(logs')].request_id = rid
                     /\ logs'[Len(logs')].status = requests'[rid].status]_vars

\* C19 case: a request was submitted and then resolved, so the log holds its
\* (pending, submitted) entry followed by the entry of the resolution.
C19_Witness ==
    /\ Len(logs) = 2
    /\ logs[1].status = "pending"
    /\ logs[2].status \in {"approved", "denied"}
    /\ requests[logs[2].request_id].status = logs[2].status

\* The results of the messages a client can send on connection c.
Messages(c) ==
    LET tok == socket[c].token
        sid == socket[c].session_id
    IN {ws_playback_command(tok, sid, "pause", None, NoInt),
        ws_request_playlist_change(tok, sid, "note", EmptyPayload),
        ws_other(tok, sid, "sync_ack"), ws_other(tok, sid, "hello")}
       \cup {ws_approve_request(tok, sid, rid, None) : rid \in RequestsIn}
       \cup {ws_deny_request(tok, sid, rid, None) : rid \in RequestsIn}

\* The events of live publications connection c has received, in order.
Published(c) == SelectSeq(socket[c].received, LAMBDA e : e.id # 0)

\* Publication id has been sent to every target broadcast reaches.
Completed(id) == \A j \in jobs : j.ev.id # id

\* C13: on every accepted connection the first message received is the
\* playback_state snapshot and the second the playlist_update snapshot,
\* whatever broadcasts run concurrently.
C13_SnapshotFirst ==
    \A c \in Conns :
        LET r == socket[c].received
        IN /\ Len(r) >= 1 => r[1] = Event("playback_state", 0)
           /\ Len(r) >= 2 => r[2] = Event("playlist_update", 0)

\* C14: once the broadcast of a publication is over, every connection that
\* was registered when it was published and whose sends succeed (its client
\* is there) has received the event.
C14_EveryListenerReceives ==
    \A id \in 1..Len(pubs) :
        Completed(id) =>
            \A c \in Range(pubs[id].targets) :
                Healthy(c) => Event(pubs[id].type, id) \in Range(socket[c].received)

\* C15: every connection receives the published events in publication order.
C15_PublicationOrder ==
    \A c \in Conns :
        \A i, k \in 1..Len(Published(c)) :
            i < k => Published(c)[i].id < Published(c)[k].id

\* C16: a send that fails, by whatever exception, does not cut the
\* publication short: no broadcast is left before its last target and the
\* handler that triggered it is not ended by the failure.
C16_SendFailureIsolated ==
    \A id \in 1..Len(pubs) : ~pubs[id].aborted

\* C17: a rejected message (unsupported type, failed role check, unknown
\* request, failed mutation) leaves the connection open and registered, its
\* handler awaiting the next message.
C17_RejectionKeepsConnection ==
    \A c \in Conns :
        socket[c].state = "open" =>
            \A r \in Messages(c) :
                r.status # HTTP_OK =>
                    LET h == session_socket(c, r, <<>>, "sent")
                    IN /\ h.socket[c].state = "open"
                       /\ c \in Range(h.active[socket[c].session_id])

\* C20: a connection whose handler has ended, for whatever reason, is not in
\* the hub's active set.  (Only the handler's own except clause calls
\* manager.disconnect, so a connection still registered when its handler has
\* ended is never removed.)
C20_EndedHandlerDeregistered ==
    \A c \in Conns :
        socket[c].state \in {"closed", "dead"} =>
            c \notin Range(active[socket[c].session_id])

\* C25: the host's add puts the new item at the position equal to the number
\* of items the playlist held and keeps every other item as it was.  When the
\* playlist was empty the new item's track becomes the current track and the
\* mode and position stay; when it was not, the current track stays.
C25_AddAppends ==
    \A sid \in DOMAIN sessions, t \in Tracks :
        LET r == add_playlist_item_endpoint(sessions[sid].host_id, sid, t, NoInt)
            old == SessionItems(items, sid)
        IN r.status = HTTP_OK =>
              /\ items \subseteq r.items
              /\ \E it \in r.items \ items :
                     /\ r.items = items \cup {it}
                     /\ it.session_id = sid /\ it.track_id = t
                     /\ it.position = Cardinality(old)
              /\ old = {} => r.playback[sid] = [playback[sid] EXCEPT !.track_id = t]
              /\ old # {} => r.playback[sid] = playback[sid]

C27_EndpointAddApprovable ==
    \A rid \in 1..Len(requests) :
        LET req == requests[rid]
            sid == req.session_id
            r == approve_request(sessions[sid].host_id, rid, None)
        IN (/\ req.status = "pending"
            /\ req.request_type = "add"
            /\ req = create_request(sid, req.requester, "add",
                                    WithDuration(Payload(req.payload.track_id, FALSE, NoInt, NoInt),
                                                 req.payload.duration_seconds))
            /\ req.payload.track_id # None
            /\ users[req.requester].role = "guest") =>
               /\ r.status = HTTP_OK
               /\ r.requests[rid].status = "approved"
               /\ \E it \in r.items \ items :
                      /\ it.track_id = req.payload.track_id
                      /\ it.position = Cardinality(SessionItems(items, sid))

\* C30: the host's pause sets the mode to paused, keeps the current track
\* whether or not the command carries a track_id, and sets the position only
\* to a position_ms the command carries; the host's seek keeps the mode.
C30_PauseSeekFrame ==
    \A sid \in DOMAIN sessions, t \in {None, "t2"}, pos \in Optional({5}) :
        LET pause == ws_playback_command(sessions[sid].host_id, sid, "pause", t, pos)
            seek == ws_playback_command(sessions[sid].host_id, sid, "seek", t, pos)
        IN /\ pause.status = HTTP_OK
           /\ pause.playback[sid].state = "paused"
           /\ pause.playback[sid].track_id = playback[sid].track_id
           /\ pause.playback[sid].position_ms = IF pos = <<>> THEN playback[sid].position_ms ELSE pos[1]
           /\ seek.status = HTTP_OK
           /\ seek.playback[sid].state = playback[sid].state

\* C30 case: a track other than the one the commands carry is playing from a
\* position other than the one they carry.
C30_Witness ==
    /\ playback["S1"].state = "playing"
    /\ playback["S1"].track_id = "t1"
    /\ playback["S1"].position_ms = 0

\* C24: in the hub scenario, where the playlist changes only through the
\* approval of a request, every playlist_update published is that of an
\* approval: a denial, live or REST, publishes request_update alone.
C24_DenyPublishesRequestOnly ==
    Cardinality({id \in 1..Len(pubs) : pubs[id].type = "playlist_update"})
        <= Cardinality({i \in 1..Len(logs) : logs[i].status = "approved"})

\* C28: an operation of the host that changes the current track, the position
\* or the mode of a session stamps updated_at with the current time, add and
\* remove of playlist items included; updated_at never decreases; and every
\* playback command of the host stamps updated_at.
C28_PlaybackStamped ==
    \A sid \in DOMAIN sessions :
        LET host == sessions[sid].host_id
            commands == {ws_playback_command(host, sid, a, None, NoInt) : a \in Actions}
            calls == commands
                     \cup {add_playlist_item_endpoint(host, sid, t, NoInt) : t \in Tracks}
                     \cup {remove_playlist_item_endpoint(host, sid, x) : x \in ItemsIn}
                     \cup {update_playback(host, sid, StateUpdate(<<>>, <<5>>, <<"playing">>))}
        IN /\ playback[sid].updated_at <= clock
           /\ \A r \in calls :
                  r.status = HTTP_OK =>
                      /\ r.playback[sid].updated_at >= playback[sid].updated_at
                      /\ r.playback[sid] # playback[sid] => r.playback[sid].updated_at = clock
           /\ \A r \in commands : r.status = HTTP_OK /\ r.playback[sid].updated_at = clock

\* C29: in every reachable state the position of each session's playback
\* state is at least 0 and its mode is playing or paused.
C29_PlaybackInRange ==
    \A sid \in DOMAIN sessions :
        /\ playback[sid].position_ms >= 0
        /\ playback[sid].state \in {"playing", "paused"}

\* The last message of the given type connection c has received.
LastOf(c, type) ==
    LET of == SelectSeq(socket[c].received, LAMBDA e : e.type = type)
    IN of[Len(of)]

\* No handler is broadcasting and no snapshot is under way.
Quiescent == jobs = {} /\ \A c \in Conns : socket[c].state # "snapshot"

\* C21: a listener whose send never completes holds back nothing but itself:
\* a broadcast that waits on a stalled send has no connection with a live
\* client left to send its event to, and its handler has no event left to
\* publish.
C21_StallHoldsNobody ==
    \A j \in jobs :
        j.blocked =>
            /\ \A c \in Range(j.targets) : ~Healthy(c)
            /\ j.events = <<>>

\* C22: when no broadcast and no snapshot is under way, the last
\* playlist_update a connected listener has received from a broadcast holds
\* the stored playlist of its session, and the last playback_state it has
\* received from a broadcast holds the stored playback state.
C22_Convergence ==
    Quiescent =>
        \A c \in Conns :
            socket[c].state = "open" =>
                LET sid == socket[c].session_id
                    playlist == LastOf(c, "playlist_update")
                    state == LastOf(c, "playback_state")
                IN /\ playlist.id # 0 => pubs[playlist.id].payload = serialize_playlist(items, sid)
                   /\ state.id # 0 => pubs[state.id].payload = serialize_playback(playback, sid)

\* The results of the mutations a host can issue on session sid in this state:
\* its direct add, reorder and remove, and its approvals (REST and live).
HostMutations(sid) ==
    LET host == sessions[sid].host_id
    IN {add_playlist_item_endpoint(host, sid, t, NoInt) : t \in Tracks}
       \cup {reorder_playlist_endpoint(host, sid, x[1], Some(x[2])) : x \in ItemsIn \X (0..MaxItems)}
       \cup {remove_playlist_item_endpoint(host, sid, x) : x \in ItemsIn}
       \cup {approve_request(host, rid, None) : rid \in RequestsIn}
       \cup {ws_approve_request(host, sid, rid, None) : rid \in RequestsIn}

\* C23: whatever mutations and broadcasts interleave, every stored playlist
\* and every playlist a broadcast has published carries the positions 0..n-1
\* in order, and every step that changes the playlist is one whole successful
\* mutation applied to the playlist as the step before left it.
C23_AtomicMutations ==
    /\ [](/\ \A sid \in DOMAIN sessions :
                \A i \in 1..Len(serialize_playlist(items, sid)) :
                    serialize_playlist(items, sid)[i].position = i - 1
          /\ \A id \in 1..Len(pubs) :
                pubs[id].type = "playlist_update" =>
                    \A i \in 1..Len(pubs[id].payload) : pubs[id].payload[i].position = i - 1)
    /\ [][items' # items =>
              \E sid \in DOMAIN sessions :
                  \E r \in HostMutations(sid) : r.status = HTTP_OK /\ items' = r.items]_vars

\* C23 case: the broadcast of a playlist of two items is still under way and
\* another mutation has already replaced that playlist in the store.
C23_Witness ==
    \E j \in jobs :
        /\ j.ev.id # 0
        /\ pubs[j.ev.id].type = "playlist_update"
        /\ Len(pubs[j.ev.id].payload) = 2
        /\ Len(serialize_playlist(items, pubs[j.ev.id].session_id)) = 2
        /\ pubs[j.ev.id].payload # serialize_playlist(items, pubs[j.ev.id].session_id)

\* C31: on a connection session_socket accepted, a playback_command, an
\* approve_request or a deny_request of a guest, and a request_playlist_change
\* of a host, whatever they carry, are answered Forbidden and leave the
\* playlists, the playback states, the requests and the audit log as they were.
C31_LiveRoleChecks ==
    \A tok \in DOMAIN users, sid \in DOMAIN sessions :
        Connected(tok, sid) =>
            LET Refused(r) == r = Reject(Forbidden)
            IN /\ users[tok].role = "guest" =>
                     /\ \A m \in Actions \X (Tracks \cup {None}) \X Optional({5}) :
                            Refused(ws_playback_command(tok, sid, m[1], m[2], m[3]))
                     /\ \A rid \in RequestsIn :
                            /\ Refused(ws_approve_request(tok, sid, rid, None))
                            /\ Refused(ws_deny_request(tok, sid, rid, "no"))
               /\ users[tok].role = "host" =>
                     \A cr \in MutationRequests :
                         Refused(ws_request_playlist_change(tok, sid, cr[1], cr[2]))

\* C31 case: a session holds an item and a pending request of its guest that
\* its host can approve and deny on its connection; the guest cannot.
C31_Witness ==
    \E rid \in 1..Len(requests) :
        LET sid == requests[rid].session_id
            host == sessions[sid].host_id
            guest == requests[rid].requester
        IN /\ requests[rid].status = "pending"
           /\ users[guest].role = "guest"
           /\ Connected(guest, sid)
           /\ SessionItems(items, sid) # {}
           /\ ws_approve_request(host, sid, rid, None).status = HTTP_OK
           /\ ws_deny_request(host, sid, rid, "no").status = HTTP_OK
           /\ ws_approve_request(guest, sid, rid, None).status = Forbidden
           /\ ws_request_playlist_change(host, sid, "add", requests[rid].payload).status = Forbidden

\* C32: a connection opened with a token that names no stored user, for a
\* session that is not stored, or by a user who is neither the session's host
\* nor a guest bound to it, is refused: it is in no session's active list, no
\* broadcast has it among its targets, and it has received nothing.
C32_RefusedNeverRegistered ==
    \A c \in Conns :
        LET tok == socket[c].token
            sid == socket[c].session_id
            member == /\ tok \in DOMAIN users
                      /\ sid \in DOMAIN sessions
                      /\ \/ users[tok].role = "host" /\ sessions[sid].host_id = tok
                         \/ users[tok].role = "guest" /\ users[tok].session_id = sid
        IN ~member =>
               /\ socket[c].state = "refused"
               /\ socket[c].received = <<>>
               /\ \A s \in DOMAIN active : c \notin Range(active[s])
               /\ \A id \in 1..Len(pubs) : c \notin Range(pubs[id].targets)
               /\ \A j \in jobs : c \notin Range(j.targets)

\* C32 case: a stored user who is not a member of a stored session has opened
\* a connection to it, and an event of that session has reached a listener.
C32_Witness ==
    \E c, d \in Conns :
        /\ socket[c].state = "refused"
        /\ socket[c].token \in DOMAIN users
        /\ socket[c].session_id \in DOMAIN sessions
        /\ socket[d].session_id = socket[c].session_id
        /\ \E i \in 1..Len(socket[d].received) :
               /\ socket[d].received[i].id # 0
               /\ pubs[socket[d].received[i].id].session_id = socket[c].session_id

\* C34: every event a connection has received from a broadcast was published
\* for the session the connection was opened on, and every target of a
\* publication is a connection of the session it was published for.
C34_OwnSessionOnly ==
    /\ \A c \in Conns :
           \A i \in 1..Len(socket[c].received) :
               socket[c].received[i].id # 0 =>
                   pubs[socket[c].received[i].id].session_id = socket[c].session_id
    /\ \A id \in 1..Len(pubs) :
           \A c \in Range(pubs[id].targets) : socket[c].session_id = pubs[id].session_id

\* C34 case: one handler has published an event for each of two sessions, and
\* a listener of each session has received the event of its own.
C34_Witness ==
    \E c, d \in Conns :
        /\ socket[c].session_id # socket[d].session_id
        /\ \E i \in 1..Len(socket[c].received), k \in 1..Len(socket[d].received) :
               /\ socket[c].received[i].id # 0
               /\ socket[d].received[k].id = socket[c].received[i].id + 1
               /\ pubs[socket[c].received[i].id].type = "playlist_update"
               /\ pubs[socket[d].received[k].id].type = "request_update"

\* C35: whatever a stored user invokes on session A (a session-scoped REST
\* call addressed to A, or a message on a connection to A), the playlist, the
\* playback state and the requests of every other session B stay as they
\* were, and no request of B is created.
C35_SessionsIndependent ==
    \A tok \in DOMAIN users, A \in DOMAIN sessions :
        LET Kept(r) ==
                \A B \in DOMAIN sessions \ {A} :
                    /\ SessionItems(r.items, B) = SessionItems(items, B)
                    /\ r.playback[B] = playback[B]
                    /\ \A rid \in 1..Len(r.requests) :
                           r.requests[rid].session_id = B =>
                               rid <= Len(requests) /\ r.requests[rid] = requests[rid]
        IN /\ Kept(get_playlist(tok, A))
           /\ \A t \in Tracks : Kept(add_playlist_item_endpoint(tok, A, t, NoInt))
           /\ \A i \in ItemsIn, pos \in Optional(0..(MaxItems - 1)) :
                  Kept(reorder_playlist_endpoint(tok, A, i, pos))
           /\ \A i \in ItemsIn : Kept(remove_playlist_item_endpoint(tok, A, i))
           /\ \A cr \in MutationRequests : Kept(submit_custom_request(tok, A, cr[1], cr[2]))
           /\ Kept(update_playback(tok, A, StateUpdate(<<"t1">>, <<5>>, <<"playing">>)))
           /\ Connected(tok, A) =>
                  /\ \A m \in Actions \X (Tracks \cup {None}) \X Optional({5}) :
                         Kept(ws_playback_command(tok, A, m[1], m[2], m[3]))
                  /\ \A cr \in MutationRequests :
                         Kept(ws_request_playlist_change(tok, A, cr[1], cr[2]))
                  /\ \A rid \in RequestsIn :
                         /\ Kept(ws_approve_request(tok, A, rid, None))
                         /\ Kept(ws_deny_request(tok, A, rid, "no"))

\* C33: at every send in progress no handler is inside the block that holds
\* manager.lock: the lock is free, and a connection that registers or
\* deregisters meanwhile does not wait for the send.
C33_LockFreeDuringSends ==
    \A j \in jobs : ~j.locked

\* C33 case: a broadcast is stalled in a send; since it copied its targets one
\* of them has deregistered and another connection has registered.
C33_Witness ==
    \E j \in jobs :
        /\ j.blocked
        /\ j.ev.id # 0
        /\ \E c, d \in Conns :
               /\ d \in Range(pubs[j.ev.id].targets)
               /\ socket[d].state = "closed"
               /\ d \notin Range(active[pubs[j.ev.id].session_id])
               /\ c \notin Range(pubs[j.ev.id].targets)
               /\ c \in Range(active[pubs[j.ev.id].session_id])

====
